---- MODULE Spec2Model ----
(***************************************************************************)
(* Model of the immudb CRUD service and its bulk importer.                 *)
(*                                                                         *)
(*   importJSONToImmuDB (the import script)  : SpecImport                   *)
(*   statement building of one batch (escape) : SpecBuild                   *)
(*   ImmudbCrudService and its routes          : SpecCrud                   *)
(*                                                                         *)
(* Text is a sequence of one-character strings.  The 56 columns of an      *)
(* import record are represented by the columns named in FieldOrder; the   *)
(* statement template is identical for every column.                       *)
(***************************************************************************)
EXTENDS Integers, Sequences, FiniteSets, TLC

\* ------------------------------------------------------------------ bounds
MaxRecords == 5
MaxBatchSize == 3
MaxStrLen == 2
MaxBuildBatch == 2
MaxRequests == 2
MaxInFlight == 2

\* const batchSize = 1000
BatchSizeInCode == 1000

\* ------------------------------------------------------------ field values
\* A field of a parsed JSON record: null (or missing), a string, or a value
\* that is neither (JSON.parse does not enforce the declared types).
Null == [t |-> "null", s |-> <<>>]
Str(chars) == [t |-> "str", s |-> chars]
Num == [t |-> "num", s |-> <<>>]

Quote == "'"
Alphabet == {"a", Quote}

RECURSIVE StringsUpTo(_)
StringsUpTo(n) ==
  IF n = 0 THEN {<<>>}
  ELSE LET shorter == StringsUpTo(n - 1)
       IN shorter \cup {Append(w, c) : w \in shorter, c \in Alphabet}

FieldValues == {Null, Num} \cup {Str(w) : w \in StringsUpTo(MaxStrLen)}

\* Two of the columns of MBACandidateRecord, in statement order: a column
\* declared string and a column declared string | null.
FieldOrder == <<"CandidateName", "MotherName">>
Fields == {FieldOrder[k] : k \in 1..Len(FieldOrder)}

AllRecords == [Fields -> FieldValues]

SampleRecords ==
  { [CandidateName |-> Str(<<"a">>), MotherName |-> Null],
    [CandidateName |-> Str(<<"a", Quote>>), MotherName |-> Str(<<Quote>>)],
    [CandidateName |-> Num, MotherName |-> Str(<<>>)] }

\* ------------------------------------------------------------- text helpers
RECURSIVE Flatten(_)
Flatten(ss) == IF ss = <<>> THEN <<>> ELSE Head(ss) \o Flatten(Tail(ss))

RECURSIVE Join(_, _)
Join(ss, sep) ==
  IF ss = <<>> THEN <<>>
  ELSE IF Len(ss) = 1 THEN Head(ss)
  ELSE Head(ss) \o sep \o Join(Tail(ss), sep)

Min(a, b) == IF a < b THEN a ELSE b

\* Mutant of Slice: the end index is one too small.
SliceOffByOne(arr, from, to) == SubSeq(arr, from + 1, Min(to - 1, Len(arr)))

\* Array.prototype.slice(from, to) with 0 <= from <= to (0-based, to exclusive).
Slice(arr, from, to) == SubSeq(arr, from + 1, Min(to, Len(arr)))

\* ------------------------------------------------------------------ escape
\* Mutant of ReplaceAllQuotes: replace without the g flag doubles only the
\* first quote.
ReplaceFirstQuote(chars) ==
  IF \E k \in 1..Len(chars) : chars[k] = Quote
    THEN LET k == CHOOSE x \in 1..Len(chars) :
                    chars[x] = Quote /\ \A y \in 1..(x - 1) : chars[y] # Quote
         IN SubSeq(chars, 1, k) \o <<Quote>> \o SubSeq(chars, k + 1, Len(chars))
    ELSE chars

\* str.replace(/'/g, "''")
RECURSIVE ReplaceAllQuotes(_)
ReplaceAllQuotes(chars) ==
  IF chars = <<>> THEN <<>>
  ELSE (IF Head(chars) = Quote THEN <<Quote, Quote>> ELSE <<Head(chars)>>)
       \o ReplaceAllQuotes(Tail(chars))

\* !str : null, undefined and the empty string are falsy.
Falsy(v) == v.t = "null" \/ (v.t = "str" /\ v.s = <<>>)

\* A truthy value without a replace method makes escape raise a TypeError.
EscapeThrows(v) == ~Falsy(v) /\ v.t # "str"

\* Mutant of escape: no substitution for null, whose text form is embedded.
escapeNoSentinel(v) ==
  IF v.t = "null" THEN <<"n", "u", "l", "l">> ELSE ReplaceAllQuotes(v.s)

escape(v) == IF Falsy(v) THEN <<>> ELSE ReplaceAllQuotes(v.s)

\* The template literal of one record: ( '<f1>', '<f2>', ... )
ValueTuple(candidate) ==
  <<"(">>
  \o Join([k \in 1..Len(FieldOrder) |->
             <<Quote>> \o escape(candidate[FieldOrder[k]]) \o <<Quote>>], <<",">>)
  \o <<")">>

BatchThrows(batch) ==
  \E k \in 1..Len(batch) : \E f \in Fields : EscapeThrows(batch[k][f])

\* batch.map(...).join(',')
ValuesClause(batch) == Join([k \in 1..Len(batch) |-> ValueTuple(batch[k])], <<",">>)

\* INSERT INTO mba_students (<columns>) VALUES <values>
bulkInsertSQL(batch) == <<"INSERT">> \o ValuesClause(batch)

\* ----------------------------------------------------- gateway: SQL text
\* The store's reading of the VALUES clause of a statement it receives: a
\* string literal opens at a quote and closes at the first quote that is not
\* followed by another quote; a doubled quote inside it stands for one quote.
Malformed == [ok |-> FALSE, toks |-> <<>>]
Punct(c) == [k |-> c, v |-> <<>>]
Lit(chars) == [k |-> "lit", v |-> chars]

RECURSIVE Lex(_, _, _, _, _)
Lex(text, p, inLit, cur, toks) ==
  IF p > Len(text)
    THEN IF inLit THEN Malformed ELSE [ok |-> TRUE, toks |-> toks]
  ELSE IF inLit
    THEN IF text[p] = Quote
           THEN IF p + 1 <= Len(text) /\ text[p + 1] = Quote
                  THEN Lex(text, p + 2, TRUE, Append(cur, Quote), toks)
                  ELSE Lex(text, p + 1, FALSE, <<>>, Append(toks, Lit(cur)))
           ELSE Lex(text, p + 1, TRUE, Append(cur, text[p]), toks)
  ELSE IF text[p] = Quote
    THEN Lex(text, p + 1, TRUE, <<>>, toks)
  ELSE IF text[p] \in {"(", ")", ","}
    THEN Lex(text, p + 1, FALSE, <<>>, Append(toks, Punct(text[p])))
  ELSE Malformed

NoRows == [ok |-> FALSE, rows |-> <<>>]

\* rows ::= row ("," row)* ;  row ::= "(" lit ("," lit)* ")"
\* st: "row" expects "(", "lit" expects a literal, "sep" expects "," or ")",
\*     "next" expects "," or the end of the text.
RECURSIVE ParseRows(_, _, _, _, _)
ParseRows(toks, p, st, row, rows) ==
  IF p > Len(toks)
    THEN IF st = "next" THEN [ok |-> TRUE, rows |-> rows] ELSE NoRows
  ELSE LET tk == toks[p].k IN
    CASE st = "row" /\ tk = "(" -> ParseRows(toks, p + 1, "lit", <<>>, rows)
      [] st = "lit" /\ tk = "lit" ->
           ParseRows(toks, p + 1, "sep", Append(row, toks[p].v), rows)
      [] st = "sep" /\ tk = "," -> ParseRows(toks, p + 1, "lit", row, rows)
      [] st = "sep" /\ tk = ")" ->
           ParseRows(toks, p + 1, "next", <<>>, Append(rows, row))
      [] st = "next" /\ tk = "," -> ParseRows(toks, p + 1, "row", <<>>, rows)
      [] OTHER -> NoRows

\* The rows an INSERT statement denotes, or NoRows when the text is not a
\* well-formed INSERT with one value per column in every row.
ParseInsert(sql) ==
  IF sql = <<>> \/ Head(sql) # "INSERT" THEN NoRows
  ELSE LET lexed == Lex(Tail(sql), 1, FALSE, <<>>, <<>>) IN
       IF ~lexed.ok THEN NoRows
       ELSE LET parsed == ParseRows(lexed.toks, 1, "row", <<>>, <<>>) IN
            IF parsed.ok /\ \A r \in 1..Len(parsed.rows) :
                              Len(parsed.rows[r]) = Len(FieldOrder)
              THEN parsed ELSE NoRows

\* ------------------------------------------------------------------ state
VARIABLES
  pc,            \* position of importJSONToImmuDB
  batchSize,     \* const batchSize of the run
  candidates,    \* tableData.data
  i,             \* loop variable: offset of the current batch
  batch,         \* candidates.slice(i, i + batchSize) of the current iteration
  insertedCount, \* let insertedCount
  error,         \* what the body of the outer try raised, "none" if nothing
  result,        \* "none" while running, then "returned" or "thrown"
  outstanding,   \* gateway: statements submitted and not yet completed
  calls,         \* gateway: every call received, in order
  table,         \* gateway: rows of the table mba_students
  batches,       \* history: the batches the loop produced, in order
  failedAt,      \* console: offsets logged by "Error in bulk insert batch starting at"
  verifyFailed,  \* console: verification queries reported as failed
  dbLog,         \* console: "created" or "existing" database, "none" before
  buildBatch,    \* SpecBuild: the batch handed to the statement builder
  buildOut,      \* SpecBuild: what the builder produced
  connState,     \* progress of crudService.connect() in the listen callback
  tableExists,   \* store: the table "users" exists
  users,         \* store: rows of "users", id -> [name, email, created_at]
  txCount,       \* store: number of committed transactions
  clock,         \* Date.now(): time may have passed since the last reading
  reqs,          \* the requests being handled, one per slot
  resp,          \* the response sent last
  issued,        \* number of requests received so far
  fresh,         \* history: id -> the record of its Create, until an update
  lastUpdate,    \* history: id -> the {name, email} of the last UPDATE executed
  revisions      \* store: id -> the revisions of its row (HISTORY OF "users")

importVars == <<pc, batchSize, candidates, i, batch, insertedCount, error, result,
                outstanding, calls, table, batches, failedAt, verifyFailed, dbLog>>
buildVars == <<buildBatch, buildOut>>
crudVars == <<connState, tableExists, users, txCount, clock, reqs, resp, issued, fresh,
              lastUpdate, revisions>>
vars == <<importVars, buildVars, crudVars>>

Datasets == UNION {[1..n -> SampleRecords] : n \in 0..MaxRecords}

Call(op, what, at) == [op |-> op, what |-> what, at |-> at]

BuildInit == buildBatch = <<>> /\ buildOut = [st |-> "none", sql |-> <<>>]

\* The import script as loaded: nothing has run yet.
ImportLoaded ==
  /\ pc = "login"
  /\ candidates = <<>>
  /\ i = 0
  /\ batch = <<>>
  /\ insertedCount = 0
  /\ error = "none"
  /\ result = "none"
  /\ outstanding = {}
  /\ calls = <<>>
  /\ table = <<>>
  /\ batches = <<>>
  /\ failedAt = {}
  /\ verifyFailed = {}
  /\ dbLog = "none"

\* The run of the import script; its batch size ranges over 1..MaxBatchSize.
ImportInit == ImportLoaded /\ batchSize \in 1..MaxBatchSize

\* The script is not run: SpecBuild and SpecCrud leave its state alone.
ImportIdle == ImportLoaded /\ batchSize = BatchSizeInCode

\* ------------------------------------------------------ importJSONToImmuDB
\* An exception in the outer try: the catch logs and rethrows it, the finally
\* block runs first.
Throw(e) == pc' = "finally" /\ error' = e

Goto(l) == pc' = l /\ error' = error

\* Mutant of Login: the rejection of login is recorded and the run goes on.
LoginFailureIgnored ==
  /\ pc = "login"
  /\ calls' = Append(calls, Call("login", "", -1))
  /\ \/ Goto("createDatabase")
     \/ pc' = "createDatabase" /\ error' = "login"
  /\ UNCHANGED <<batchSize, candidates, i, batch, insertedCount, result,
                 outstanding, table, batches, failedAt, verifyFailed, dbLog, buildVars, crudVars>>

Login ==
  /\ pc = "login"
  /\ calls' = Append(calls, Call("login", "", -1))
  /\ \/ Goto("createDatabase")
     \/ Throw("login")
  /\ UNCHANGED <<batchSize, candidates, i, batch, insertedCount, result,
                 outstanding, table, batches, failedAt, verifyFailed, dbLog, buildVars, crudVars>>

\* Mutant of CreateDatabase: the catch rethrows every error.
CreateDatabaseRethrowsAll ==
  /\ pc = "createDatabase"
  /\ calls' = Append(calls, Call("createDatabase", "", -1))
  /\ \/ Goto("useDatabase") /\ dbLog' = "created"
     \/ Throw("createDatabase") /\ dbLog' = "existing"
     \/ Throw("createDatabase") /\ dbLog' = dbLog
  /\ UNCHANGED <<batchSize, candidates, i, batch, insertedCount, result,
                 outstanding, table, batches, failedAt, verifyFailed, buildVars, crudVars>>

CreateDatabase ==
  /\ pc = "createDatabase"
  /\ calls' = Append(calls, Call("createDatabase", "", -1))
  /\ \/ Goto("useDatabase") /\ dbLog' = "created"
     \/ Goto("useDatabase") /\ dbLog' = "existing"   \* "... already exists ..."
     \/ Throw("createDatabase") /\ dbLog' = dbLog     \* any other error
  /\ UNCHANGED <<batchSize, candidates, i, batch, insertedCount, result,
                 outstanding, table, batches, failedAt, verifyFailed, buildVars, crudVars>>

UseDatabase ==
  /\ pc = "useDatabase"
  /\ calls' = Append(calls, Call("useDatabase", "", -1))
  /\ \/ Goto("readFile")
     \/ Throw("useDatabase")
  /\ UNCHANGED <<batchSize, candidates, i, batch, insertedCount, result,
                 outstanding, table, batches, failedAt, verifyFailed, dbLog, buildVars, crudVars>>

ReadJSON ==
  /\ pc = "readFile"
  /\ \/ /\ Throw("readFile")               \* readFileSync or JSON.parse raised
        /\ candidates' = candidates
     \/ /\ Throw("noTableData")            \* no item of type table with data
        /\ candidates' = candidates
     \/ /\ candidates' \in Datasets
        /\ Goto("createTable")
  /\ UNCHANGED <<batchSize, i, batch, insertedCount, result, outstanding, calls,
                 table, batches, failedAt, verifyFailed, dbLog, buildVars, crudVars>>

\* Mutant of CreateTable: the schema statement is issued a second time.
CreateTableTwice ==
  /\ pc = "createTable"
  /\ calls' = calls \o <<Call("SQLExec", "createTable", -1),
                         Call("SQLExec", "createTable", -1)>>
  /\ \/ Goto("loop") /\ i' = 0 /\ insertedCount' = 0
     \/ Throw("createTable") /\ UNCHANGED <<i, insertedCount>>
  /\ UNCHANGED <<batchSize, candidates, batch, result, outstanding, table,
                 batches, failedAt, verifyFailed, dbLog, buildVars, crudVars>>

CreateTable ==
  /\ pc = "createTable"
  /\ calls' = Append(calls, Call("SQLExec", "createTable", -1))
  /\ \/ Goto("loop") /\ i' = 0 /\ insertedCount' = 0
     \/ Throw("createTable") /\ UNCHANGED <<i, insertedCount>>
  /\ UNCHANGED <<batchSize, candidates, batch, result, outstanding, table,
                 batches, failedAt, verifyFailed, dbLog, buildVars, crudVars>>

\* Mutant of LoopTest: <= for <.
LoopTestInclusive(idx, arr) == idx <= Len(arr)

\* for (...; i < candidates.length; ...)
LoopTest(idx, arr) == idx < Len(arr)

\* Mutant of LoopStep: SQLExec is called without await, the loop goes on at once.
LoopStepNoAwait ==
  /\ pc = "loop"
  /\ IF LoopTest(i, candidates)
       THEN LET b == Slice(candidates, i, i + batchSize) IN
            /\ batch' = b
            /\ batches' = Append(batches, b)
            /\ IF BatchThrows(b)
                 THEN Throw("escape") /\ UNCHANGED <<i, outstanding, calls>>
                 ELSE /\ outstanding' = outstanding \cup
                                          {[at |-> i, sql |-> bulkInsertSQL(b)]}
                      /\ calls' = Append(calls, Call("SQLExec", "insert", i))
                      /\ i' = i + batchSize
                      /\ Goto("loop")
       ELSE /\ Goto("verifyCount")
            /\ UNCHANGED <<i, batch, batches, outstanding, calls>>
  /\ UNCHANGED <<batchSize, candidates, insertedCount, result, table,
                 failedAt, verifyFailed, dbLog, buildVars, crudVars>>

\* The loop test and, inside the loop, everything up to the call of SQLExec.
LoopStep ==
  /\ pc = "loop"
  /\ IF LoopTest(i, candidates)
       THEN LET b == Slice(candidates, i, i + batchSize) IN
            /\ batch' = b
            /\ batches' = Append(batches, b)
            /\ IF BatchThrows(b)
                 THEN Throw("escape") /\ UNCHANGED <<outstanding, calls>>
                 ELSE /\ outstanding' = outstanding \cup
                                          {[at |-> i, sql |-> bulkInsertSQL(b)]}
                      /\ calls' = Append(calls, Call("SQLExec", "insert", i))
                      /\ Goto("awaitInsert")
       ELSE /\ Goto("verifyCount")
            /\ UNCHANGED <<batch, batches, outstanding, calls>>
  /\ UNCHANGED <<batchSize, candidates, i, insertedCount, result, table,
                 failedAt, verifyFailed, dbLog, buildVars, crudVars>>

\* Mutant of CountAfterSuccess: counts the configured size, not the batch's.
CountAfterSuccessFull(count, b) == count + batchSize

\* insertedCount += batch.length
CountAfterSuccess(count, b) == count + Len(b)

\* The awaited SQLExec resolves: the store has applied the whole statement.
InsertOk ==
  /\ pc = "awaitInsert"
  /\ \E st \in outstanding :
       /\ ParseInsert(st.sql).ok
       /\ table' = table \o ParseInsert(st.sql).rows
       /\ outstanding' = outstanding \ {st}
  /\ insertedCount' = CountAfterSuccess(insertedCount, batch)
  /\ i' = i + batchSize
  /\ Goto("loop")
  /\ UNCHANGED <<batchSize, candidates, batch, result, calls, batches, failedAt,
                 verifyFailed, dbLog, buildVars, crudVars>>

\* Mutant of InsertFail: the catch block rethrows.
InsertFailRethrows ==
  /\ pc = "awaitInsert"
  /\ \E st \in outstanding : outstanding' = outstanding \ {st}
  /\ failedAt' = failedAt \cup {i}
  /\ Throw("insert")
  /\ UNCHANGED <<batchSize, candidates, i, batch, insertedCount, result, calls,
                 table, batches, verifyFailed, dbLog, buildVars, crudVars>>

\* Mutant of InsertFail: the loop variable is not advanced, the batch is
\* submitted again.
InsertFailRetries ==
  /\ pc = "awaitInsert"
  /\ \E st \in outstanding : outstanding' = outstanding \ {st}
  /\ failedAt' = failedAt \cup {i}
  /\ Goto("loop")
  /\ UNCHANGED <<batchSize, candidates, i, batch, insertedCount, result, calls,
                 table, batches, verifyFailed, dbLog, buildVars, crudVars>>

\* Mutant of InsertFail: the count is advanced in the catch block too.
InsertFailCounts ==
  /\ pc = "awaitInsert"
  /\ \E st \in outstanding : outstanding' = outstanding \ {st}
  /\ failedAt' = failedAt \cup {i}
  /\ insertedCount' = insertedCount + Len(batch)
  /\ i' = i + batchSize
  /\ Goto("loop")
  /\ UNCHANGED <<batchSize, candidates, batch, result, calls,
                 table, batches, verifyFailed, dbLog, buildVars, crudVars>>

\* The awaited SQLExec rejects: the store has applied nothing of it.
InsertFail ==
  /\ pc = "awaitInsert"
  /\ \E st \in outstanding : outstanding' = outstanding \ {st}
  /\ failedAt' = failedAt \cup {i}
  /\ i' = i + batchSize
  /\ Goto("loop")
  /\ UNCHANGED <<batchSize, candidates, batch, insertedCount, result, calls,
                 table, batches, verifyFailed, dbLog, buildVars, crudVars>>

\* Mutant of VerifyCount: the count query is not wrapped in its own try.
VerifyCountThrows ==
  /\ pc = "verifyCount"
  /\ calls' = Append(calls, Call("SQLQuery", "count", -1))
  /\ \/ verifyFailed' = verifyFailed /\ Goto("verifySample")
     \/ verifyFailed' = verifyFailed \cup {"count"} /\ Throw("count")
  /\ UNCHANGED <<batchSize, candidates, i, batch, insertedCount, result,
                 outstanding, table, batches, failedAt, dbLog, buildVars, crudVars>>

VerifyCount ==
  /\ pc = "verifyCount"
  /\ calls' = Append(calls, Call("SQLQuery", "count", -1))
  /\ \/ verifyFailed' = verifyFailed
     \/ verifyFailed' = verifyFailed \cup {"count"}
  /\ Goto("verifySample")
  /\ UNCHANGED <<batchSize, candidates, i, batch, insertedCount, result,
                 outstanding, table, batches, failedAt, dbLog, buildVars, crudVars>>

VerifySample ==
  /\ pc = "verifySample"
  /\ calls' = Append(calls, Call("SQLQuery", "sample", -1))
  /\ \/ verifyFailed' = verifyFailed
     \/ verifyFailed' = verifyFailed \cup {"sample"}
  /\ Goto("finally")
  /\ UNCHANGED <<batchSize, candidates, i, batch, insertedCount, result,
                 outstanding, table, batches, failedAt, dbLog, buildVars, crudVars>>

\* finally: logout, whose own failure is swallowed; then the function returns
\* or the rethrown error reaches the caller.
Logout ==
  /\ pc = "finally"
  /\ calls' = Append(calls, Call("logout", "", -1))
  /\ pc' = "done"
  /\ result' = IF error = "none" THEN "returned" ELSE "thrown"
  /\ UNCHANGED <<batchSize, candidates, i, batch, insertedCount, error,
                 outstanding, table, batches, failedAt, verifyFailed, dbLog, buildVars, crudVars>>

ImportNext ==
  \/ Login
  \/ CreateDatabase
  \/ UseDatabase
  \/ ReadJSON
  \/ CreateTable
  \/ LoopStep
  \/ InsertOk
  \/ InsertFail
  \/ VerifyCount
  \/ VerifySample
  \/ Logout

\* ------------------------------------------------- building one statement
\* The statement builder of the loop body applied to a batch of its own: one
\* record with any field values, with sample records before or after it.
ChooseRecord ==
  /\ buildOut.st = "none" /\ buildBatch = <<>>
  /\ \E r \in AllRecords : buildBatch' = <<r>>
  /\ UNCHANGED <<buildOut, importVars, crudVars>>

AddSample ==
  /\ buildOut.st = "none"
  /\ Len(buildBatch) \in 1..(MaxBuildBatch - 1)
  /\ \E r \in SampleRecords :
       \/ buildBatch' = Append(buildBatch, r)
       \/ buildBatch' = <<r>> \o buildBatch
  /\ UNCHANGED <<buildOut, importVars, crudVars>>

BuildStatement ==
  /\ buildOut.st = "none" /\ buildBatch # <<>>
  /\ buildOut' = IF BatchThrows(buildBatch)
                   THEN [st |-> "threw", sql |-> <<>>]
                   ELSE [st |-> "built", sql |-> bulkInsertSQL(buildBatch)]
  /\ UNCHANGED <<buildBatch, importVars, crudVars>>

BuildNext == ChooseRecord \/ AddSample \/ BuildStatement

\* ------------------------------------------------------ ImmudbCrudService
Ids == {"user001", "user002"}
Names == {"Alice", "Bob"}
Emails == {"alice@example.com"}
\* A property absent from the request body.
Undefined == "undefined"

NoRecord == [id |-> "", name |-> "", email |-> ""]
NoRow == <<>>
NoUpdate == [name |-> "", email |-> "", done |-> FALSE]

Slots == 1..MaxInFlight

\* gwCalls: the calls of the shared client made for the request so far.
IdleReq == [pc |-> "idle", kind |-> "none", id |-> "", name |-> "", email |-> "",
            gwCalls |-> 0]

\* The keys of the JSON bodies the routes send.
FailureKeys == {"success", "error"}
UserKeys == {"success", "user", "tamperProof"}
UsersKeys == {"success", "users", "count", "tamperProof"}
HistoryKeys == {"success", "historicalUser", "tamperProof"}
HealthKeys == {"success", "database", "timestamp"}
ReadProof == {"verified", "cryptographicProof"}
WriteProof == {"verified", "transactionId", "cryptographicProof"}
HistoryProof == {"verified", "cryptographicProof", "note"}

\* shape: "object" for {id, name, email, createdAt}, "row" for a row of the
\* store as SQLQuery returns it (its values in SELECT order), "rows" for a
\* list of rows, "none" otherwise.  keys and tamper are the keys of the body
\* and of its tamperProof object.
\* gw, seen, seenUpdate, gwCalls and gwVerified are history: whether the
\* gateway call that produced the payload succeeded, the values of fresh[id]
\* and lastUpdate[id] when it was made, the number of gateway calls made for
\* the request, and the verification flag carried by the gateway's result.
NoResp == [kind |-> "none", id |-> "", status |-> 0, success |-> FALSE,
           shape |-> "none", data |-> NoRow, verified |-> FALSE, txId |-> 0,
           error |-> "", gw |-> "none", seen |-> NoRecord,
           seenUpdate |-> NoUpdate, gwCalls |-> 0, gwVerified |-> FALSE,
           database |-> "", keys |-> {}, tamper |-> {}]

\* The store outlives the server: at start-up it is either new, without the
\* table, or holds the table with a user left by an earlier run.
StoredAtStart ==
  {[x \in {} |-> NoRow],
   [x \in {"user001"} |->
      [name |-> "Alice", email |-> "alice@example.com", created_at |-> 1]]}

Row(tbl, id) == <<id, tbl[id].name, tbl[id].email, tbl[id].created_at>>

CrudInit ==
  /\ connState = "listening"
  /\ users \in StoredAtStart
  /\ tableExists = (DOMAIN users # {})
  /\ txCount = 0
  /\ clock = 1
  /\ reqs = [s \in Slots |-> IdleReq]
  /\ resp = NoResp
  /\ issued = 0
  /\ fresh = [x \in Ids |-> NoRecord]
  /\ lastUpdate = [x \in Ids |-> NoUpdate]
  /\ revisions = [x \in Ids |->
                    IF x \in DOMAIN users THEN <<Row(users, x)>> ELSE <<>>]

\* The server is not started: SpecImport and SpecBuild leave its state alone.
CrudIdle == CrudInit /\ DOMAIN users = {}

\* The session of the shared client accepts statements once login has
\* succeeded; statements on "users" need the table.
LoggedIn == connState \in {"loggedIn", "tableReady", "connected"}
CanQueryUsers == LoggedIn /\ tableExists

\* connect(): login ...
ConnectLogin ==
  /\ connState = "listening"
  /\ \/ connState' = "loggedIn"
     \/ connState' = "failed"
  /\ UNCHANGED <<tableExists, users, txCount, clock, reqs, resp, issued, fresh,
                 lastUpdate, revisions, importVars, buildVars>>

\* ... CREATE TABLE IF NOT EXISTS "users" ...
ConnectCreateTable ==
  /\ connState = "loggedIn"
  /\ \/ connState' = "tableReady" /\ tableExists' = TRUE
     \/ connState' = "failed" /\ tableExists' = tableExists
  /\ UNCHANGED <<users, txCount, clock, reqs, resp, issued, fresh,
                 lastUpdate, revisions, importVars, buildVars>>

\* ... the two CREATE INDEX statements, whose failure is only logged.
ConnectIndexes ==
  /\ connState = "tableReady"
  /\ connState' = "connected"
  /\ UNCHANGED <<tableExists, users, txCount, clock, reqs, resp, issued, fresh,
                 lastUpdate, revisions, importVars, buildVars>>

\* The requests express can dispatch.  POST /users carries {id, name, email};
\* PUT /users/:id carries {name, email}; the GET routes carry at most an id.
Requests ==
  [kind : {"create"}, id : Ids, name : Names, email : Emails]
  \cup [kind : {"get", "history"}, id : Ids, name : {""}, email : {""}]
  \cup [kind : {"list", "health"}, id : {""}, name : {""}, email : {""}]
  \cup [kind : {"update"}, id : Ids, name : {"Bob", Undefined},
        email : Emails \cup {Undefined}]

\* express dispatches a request to its route handler.  The request takes the
\* first free slot (slots only name the requests in flight).
Arrive ==
  /\ issued < MaxRequests
  /\ \E s \in Slots :
       /\ reqs[s].pc = "idle"
       /\ \A other \in 1..(s - 1) : reqs[other].pc # "idle"
       /\ \E r \in Requests :
            reqs' = [reqs EXCEPT ![s] =
                       [pc |-> IF r.kind = "update" THEN "update.read" ELSE r.kind,
                        kind |-> r.kind, id |-> r.id, name |-> r.name,
                        email |-> r.email, gwCalls |-> 0]]
  /\ issued' = issued + 1
  /\ UNCHANGED <<connState, tableExists, users, txCount, clock, resp, fresh,
                 lastUpdate, revisions, importVars, buildVars>>

\* Mutant of SelectById: the WHERE clause is missing, the first row is taken.
SelectFirst(tbl, id) ==
  IF DOMAIN tbl = {} THEN <<>>
  ELSE <<Row(tbl, CHOOSE x \in DOMAIN tbl : TRUE)>>

\* SELECT id, name, email, created_at FROM "users" WHERE id = @id
SelectById(tbl, id) == IF id \in DOMAIN tbl THEN <<Row(tbl, id)>> ELSE <<>>

\* SELECT id, name, email, created_at FROM "users" ORDER BY created_at DESC:
\* the results the store can give (rows of equal created_at in either order).
SelectAll(tbl) ==
  LET n == Cardinality(DOMAIN tbl) IN
  {[k \in 1..n |-> Row(tbl, o[k])] :
     o \in {p \in [1..n -> DOMAIN tbl] :
              /\ \A a, b \in 1..n : p[a] = p[b] => a = b
              /\ \A a \in 1..(n - 1) :
                   tbl[p[a]].created_at >= tbl[p[a + 1]].created_at}}

\* Mutant of InsertAccepted: INSERT behaves as UPSERT.
InsertAcceptedAlways(tbl, id) == TRUE

\* PRIMARY KEY (id): INSERT is rejected for an id the table holds.
InsertAccepted(tbl, id) == id \notin DOMAIN tbl

\* INSERT INTO "users" (id, name, email, created_at) VALUES (...)
InsertRow(tbl, id, name, email, createdAt) ==
  [x \in DOMAIN tbl \cup {id} |->
     IF x = id THEN [name |-> name, email |-> email, created_at |-> createdAt]
     ELSE tbl[x]]

\* The error the client raises when the INSERT is not executed.
InsertErrors(tbl, id) ==
  {"statement failed"}
  \cup (IF CanQueryUsers /\ ~InsertAccepted(tbl, id)
          THEN {"key already exists"} ELSE {})

Reply(s, r) ==
  /\ resp' = r
  /\ reqs' = [reqs EXCEPT ![s] = IdleReq]

\* createUser and the POST /users handler around it.
CreateUser ==
  \E s \in Slots :
    /\ reqs[s].pc = "create"
    /\ \E createdAt \in {clock, clock + 1} :
         /\ clock' = createdAt
         /\ \/ /\ CanQueryUsers
               /\ InsertAccepted(users, reqs[s].id)
               /\ users' = InsertRow(users, reqs[s].id, reqs[s].name,
                                     reqs[s].email, createdAt)
               /\ revisions' =
                    [revisions EXCEPT ![reqs[s].id] =
                       Append(@, <<reqs[s].id, reqs[s].name, reqs[s].email,
                                   createdAt>>)]
               /\ txCount' = txCount + 1
               /\ fresh' = [fresh EXCEPT ![reqs[s].id] =
                              [id |-> reqs[s].id, name |-> reqs[s].name,
                               email |-> reqs[s].email]]
               /\ lastUpdate' = [lastUpdate EXCEPT ![reqs[s].id] = NoUpdate]
               /\ \E flag \in BOOLEAN :
                    Reply(s, [NoResp EXCEPT
                                !.kind = "create", !.id = reqs[s].id,
                                !.status = 201, !.success = TRUE,
                                !.shape = "object",
                                !.data = <<reqs[s].id, reqs[s].name,
                                           reqs[s].email, createdAt>>,
                                !.verified = TRUE, !.txId = txCount + 1,
                                !.gw = "ok", !.gwCalls = 1,
                                !.gwVerified = flag,
                                !.keys = UserKeys, !.tamper = WriteProof])
            \/ /\ UNCHANGED <<users, txCount, fresh, lastUpdate, revisions>>
               /\ \E e \in InsertErrors(users, reqs[s].id) :
                    Reply(s, [NoResp EXCEPT
                                !.kind = "create", !.id = reqs[s].id,
                                !.status = 400,
                                !.error = "Failed to create user: " \o e,
                                !.gw = "failed", !.gwCalls = 1,
                                !.keys = FailureKeys])
    /\ UNCHANGED <<connState, tableExists, issued, importVars, buildVars>>

\* What getUser resolves or rejects with: ok, the row, the error text and
\* whether the SQLQuery call itself succeeded.
GetUserFound(rows) ==
  [ok |-> TRUE, row |-> rows[1], error |-> "", gw |-> "ok"]

\* Mutant of GetUserNotFound: an empty result is not an error.
GetUserNoCheck ==
  [ok |-> TRUE, row |-> NoRow, error |-> "", gw |-> "ok"]

GetUserNotFound ==
  [ok |-> FALSE, row |-> NoRow, error |-> "Failed to get user: User not found",
   gw |-> "ok"]
GetUserQueryFailed ==
  [ok |-> FALSE, row |-> NoRow, error |-> "Failed to get user: query failed",
   gw |-> "failed"]

\* The outcomes getUser(id) can have in the current state.
GetUserOutcomes(id) ==
  {GetUserQueryFailed}
  \cup (IF CanQueryUsers
          THEN LET rows == SelectById(users, id) IN
               {IF Len(rows) = 0 THEN GetUserNotFound ELSE GetUserFound(rows)}
          ELSE {})

\* getUser and the GET /users/:id handler around it.
GetUser ==
  \E s \in Slots :
    /\ reqs[s].pc = "get"
    /\ \E out \in GetUserOutcomes(reqs[s].id), flag \in BOOLEAN :
         Reply(s, IF out.ok
                    THEN [NoResp EXCEPT
                            !.kind = "get", !.id = reqs[s].id, !.status = 200,
                            !.success = TRUE, !.shape = "row", !.data = out.row,
                            !.verified = TRUE, !.gw = out.gw,
                            !.seen = fresh[reqs[s].id],
                            !.seenUpdate = lastUpdate[reqs[s].id],
                            !.gwCalls = 1, !.gwVerified = flag,
                            !.keys = UserKeys, !.tamper = ReadProof]
                    ELSE [NoResp EXCEPT
                            !.kind = "get", !.id = reqs[s].id, !.status = 404,
                            !.error = out.error, !.gw = out.gw,
                            !.seen = fresh[reqs[s].id],
                            !.seenUpdate = lastUpdate[reqs[s].id],
                            !.gwCalls = 1, !.keys = FailureKeys])
    /\ UNCHANGED <<connState, tableExists, users, txCount, clock, issued, fresh,
                   lastUpdate, revisions, importVars, buildVars>>

\* getAllUsers and the GET /users handler around it.
GetAllUsers ==
  \E s \in Slots :
    /\ reqs[s].pc = "list"
    /\ \/ /\ CanQueryUsers
          /\ \E rows \in SelectAll(users), flag \in BOOLEAN :
               Reply(s, [NoResp EXCEPT
                           !.kind = "list", !.status = 200, !.success = TRUE,
                           !.shape = "rows", !.data = rows, !.verified = TRUE,
                           !.gw = "ok", !.gwCalls = 1, !.gwVerified = flag,
                           !.keys = UsersKeys, !.tamper = ReadProof])
       \/ Reply(s, [NoResp EXCEPT
                      !.kind = "list", !.status = 500,
                      !.error = "Failed to get users: query failed",
                      !.gw = "failed", !.gwCalls = 1, !.keys = FailureKeys])
    /\ UNCHANGED <<connState, tableExists, users, txCount, clock, issued, fresh,
                   lastUpdate, revisions, importVars, buildVars>>

\* getUserAtTransaction (SELECT * FROM (HISTORY OF "users") WHERE id = @id,
\* an empty result is not an error) and the GET /users/:id/history handler.
GetUserAtTransaction ==
  \E s \in Slots :
    /\ reqs[s].pc = "history"
    /\ \/ /\ CanQueryUsers
          /\ \E flag \in BOOLEAN :
               Reply(s, [NoResp EXCEPT
                           !.kind = "history", !.id = reqs[s].id,
                           !.status = 200, !.success = TRUE, !.shape = "rows",
                           !.data = revisions[reqs[s].id], !.verified = TRUE,
                           !.gw = "ok", !.gwCalls = 1, !.gwVerified = flag,
                           !.keys = HistoryKeys, !.tamper = HistoryProof])
       \/ Reply(s, [NoResp EXCEPT
                      !.kind = "history", !.id = reqs[s].id, !.status = 404,
                      !.error = "Failed to get historical user data: query failed",
                      !.gw = "failed", !.gwCalls = 1, !.keys = FailureKeys])
    /\ UNCHANGED <<connState, tableExists, users, txCount, clock, issued, fresh,
                   lastUpdate, revisions, importVars, buildVars>>

\* Mutant of healthCheck: the catch block rethrows.
healthCheckRethrows(queryOk) == IF queryOk THEN "true" ELSE "raised"

\* healthCheck: true after the await of SELECT 1, false from the catch block.
healthCheck(queryOk) == IF queryOk THEN "true" ELSE "false"

\* The GET /health handler, given what healthCheck did.
HealthReply(isHealthy, gw) ==
  CASE isHealthy = "true" ->
         [NoResp EXCEPT !.kind = "health", !.status = 200, !.success = TRUE,
                        !.database = "connected", !.gw = gw, !.gwCalls = 1,
                        !.keys = HealthKeys]
    [] isHealthy = "false" ->
         [NoResp EXCEPT !.kind = "health", !.status = 500,
                        !.database = "disconnected", !.gw = gw, !.gwCalls = 1,
                        !.keys = HealthKeys]
    [] OTHER ->
         [NoResp EXCEPT !.kind = "health", !.status = 500,
                        !.database = "disconnected", !.gw = gw, !.gwCalls = 1,
                        !.error = "health check raised",
                        !.keys = HealthKeys \cup {"error"}]

\* healthCheck and the GET /health handler around it: SELECT 1 needs the
\* session only, not the table.
HealthCheck ==
  \E s \in Slots :
    /\ reqs[s].pc = "health"
    /\ \E queryOk \in {FALSE} \cup (IF LoggedIn THEN {TRUE} ELSE {}) :
         Reply(s, HealthReply(healthCheck(queryOk),
                              IF queryOk THEN "ok" ELSE "failed"))
    /\ UNCHANGED <<connState, tableExists, users, txCount, clock, issued, fresh,
                   lastUpdate, revisions, importVars, buildVars>>

\* Mutant of UpdateFailed: the error is sent without res.status(400).
UpdateFailedAs200(s, msg) ==
  Reply(s, [NoResp EXCEPT !.kind = "update", !.id = reqs[s].id, !.status = 200,
                          !.error = msg, !.gw = "failed",
                          !.gwCalls = reqs[s].gwCalls + 1,
                          !.keys = FailureKeys])

\* The catch block of the PUT /users/:id handler.
UpdateFailed(s, msg) ==
  Reply(s, [NoResp EXCEPT !.kind = "update", !.id = reqs[s].id, !.status = 400,
                          !.error = msg, !.gw = "failed",
                          !.gwCalls = reqs[s].gwCalls + 1,
                          !.keys = FailureKeys])

\* Mutant of UpdateRead: the outcome of the first getUser is not awaited, the
\* UPDATE is issued whether or not the user exists.
UpdateReadUnchecked ==
  \E s \in Slots :
    /\ reqs[s].pc = "update.read"
    /\ reqs' = [reqs EXCEPT ![s].pc = "update.exec", ![s].gwCalls = @ + 1]
    /\ resp' = resp
    /\ UNCHANGED <<connState, tableExists, users, txCount, clock, issued, fresh,
                   lastUpdate, revisions, importVars, buildVars>>

\* updateUser, first await: getUser(id) to verify that the user exists.
UpdateRead ==
  \E s \in Slots :
    /\ reqs[s].pc = "update.read"
    /\ \E out \in GetUserOutcomes(reqs[s].id) :
         IF out.ok
           THEN /\ reqs' = [reqs EXCEPT ![s].pc = "update.exec",
                                         ![s].gwCalls = @ + 1]
                /\ resp' = resp
           ELSE UpdateFailed(s, "Failed to update user: " \o out.error)
    /\ UNCHANGED <<connState, tableExists, users, txCount, clock, issued, fresh,
                   lastUpdate, revisions, importVars, buildVars>>

\* name: updates.name || ''
OrEmpty(x) == IF x = Undefined THEN "" ELSE x

\* Mutant of UpdateRow: SET email = @email only.
UpdateRowEmailOnly(tbl, id, name, email) ==
  [x \in DOMAIN tbl |->
     IF x = id THEN [tbl[x] EXCEPT !.email = email] ELSE tbl[x]]

\* UPDATE "users" SET name = @name, email = @email WHERE id = @id
UpdateRow(tbl, id, name, email) ==
  [x \in DOMAIN tbl |->
     IF x = id THEN [tbl[x] EXCEPT !.name = name, !.email = email] ELSE tbl[x]]

\* Mutant of UpdateExec: updateUser answers from the result of the UPDATE,
\* without reading the user again.
UpdateExecNoReread ==
  \E s \in Slots :
    /\ reqs[s].pc = "update.exec"
    /\ \/ /\ CanQueryUsers
          /\ users' = UpdateRow(users, reqs[s].id, OrEmpty(reqs[s].name),
                                OrEmpty(reqs[s].email))
          /\ revisions' =
               [revisions EXCEPT ![reqs[s].id] =
                  IF reqs[s].id \in DOMAIN users
                    THEN Append(@, Row(users', reqs[s].id)) ELSE @]
          /\ txCount' = txCount + 1
          /\ fresh' = [fresh EXCEPT ![reqs[s].id] = NoRecord]
          /\ lastUpdate' = [lastUpdate EXCEPT ![reqs[s].id] =
                              [name |-> reqs[s].name, email |-> reqs[s].email,
                               done |-> TRUE]]
          /\ \E flag \in BOOLEAN :
               Reply(s, [NoResp EXCEPT
                           !.kind = "update", !.id = reqs[s].id, !.status = 200,
                           !.success = TRUE, !.shape = "row",
                           !.data = Row(users', reqs[s].id),
                           !.verified = TRUE, !.txId = txCount + 1,
                           !.gw = "ok", !.gwCalls = reqs[s].gwCalls + 1,
                           !.gwVerified = flag,
                           !.keys = UserKeys, !.tamper = WriteProof])
       \/ /\ UNCHANGED <<users, txCount, fresh, lastUpdate, revisions>>
          /\ UpdateFailed(s, "Failed to update user: statement failed")
    /\ UNCHANGED <<connState, tableExists, clock, issued, importVars, buildVars>>

\* updateUser, second await: the UPDATE statement.
UpdateExec ==
  \E s \in Slots :
    /\ reqs[s].pc = "update.exec"
    /\ \/ /\ CanQueryUsers
          /\ users' = UpdateRow(users, reqs[s].id, OrEmpty(reqs[s].name),
                                OrEmpty(reqs[s].email))
          /\ revisions' =
               [revisions EXCEPT ![reqs[s].id] =
                  IF reqs[s].id \in DOMAIN users
                    THEN Append(@, Row(users', reqs[s].id)) ELSE @]
          /\ txCount' = txCount + 1
          /\ fresh' = [fresh EXCEPT ![reqs[s].id] = NoRecord]
          /\ lastUpdate' = [lastUpdate EXCEPT ![reqs[s].id] =
                              [name |-> reqs[s].name, email |-> reqs[s].email,
                               done |-> TRUE]]
          /\ reqs' = [reqs EXCEPT ![s].pc = "update.reread",
                                  ![s].gwCalls = @ + 1]
          /\ resp' = resp
       \/ /\ UNCHANGED <<users, txCount, fresh, lastUpdate, revisions>>
          /\ UpdateFailed(s, "Failed to update user: statement failed")
    /\ UNCHANGED <<connState, tableExists, clock, issued, importVars, buildVars>>

\* updateUser, third await: getUser(id) for the data of the response, and the
\* PUT /users/:id handler around updateUser.  The verification flag is the
\* one the result of the UPDATE carried.
UpdateReread ==
  \E s \in Slots :
    /\ reqs[s].pc = "update.reread"
    /\ \E out \in GetUserOutcomes(reqs[s].id), flag \in BOOLEAN :
         IF out.ok
           THEN Reply(s, [NoResp EXCEPT
                            !.kind = "update", !.id = reqs[s].id, !.status = 200,
                            !.success = TRUE, !.shape = "row", !.data = out.row,
                            !.verified = TRUE, !.txId = txCount, !.gw = "ok",
                            !.gwCalls = reqs[s].gwCalls + 1,
                            !.gwVerified = flag,
                            !.keys = UserKeys, !.tamper = WriteProof])
           ELSE UpdateFailed(s, "Failed to update user: " \o out.error)
    /\ UNCHANGED <<connState, tableExists, users, txCount, clock, issued, fresh,
                   lastUpdate, revisions, importVars, buildVars>>

CrudNext ==
  \/ ConnectLogin
  \/ ConnectCreateTable
  \/ ConnectIndexes
  \/ Arrive
  \/ CreateUser
  \/ GetUser
  \/ GetAllUsers
  \/ GetUserAtTransaction
  \/ HealthCheck
  \/ UpdateRead
  \/ UpdateExec
  \/ UpdateReread

\* ---------------------------------------------------------- specifications
\* The import script, the statement builder and the server are separate
\* programs: each is checked alone, the state of the others at rest.
InitImport == ImportInit /\ BuildInit /\ CrudIdle
SpecImport == InitImport /\ [][ImportNext]_vars

InitBuild == ImportIdle /\ BuildInit /\ CrudIdle
SpecBuild == InitBuild /\ [][BuildNext]_vars

InitCrud == ImportIdle /\ BuildInit /\ CrudInit
SpecCrud == InitCrud /\ [][CrudNext]_vars

Init == ImportInit /\ BuildInit /\ CrudInit
Next == ImportNext \/ BuildNext \/ CrudNext
Spec == Init /\ [][Next]_vars

\* ================================================================== claims
CeilDiv(n, d) == (n + d - 1) \div d

NumBatches == CeilDiv(Len(candidates), batchSize)

\* The batch loop has run to its end (no exception left it).
LoopDone ==
  \/ pc \in {"verifyCount", "verifySample"}
  \/ pc \in {"finally", "done"} /\ error = "none"

InsertCalls == SelectSeq(calls, LAMBDA c : c.op = "SQLExec" /\ c.what = "insert")

\* Number of records of the batch that starts at offset o.
RecordsAt(o) == Min(batchSize, Len(candidates) - o)

RECURSIVE SumRecordsAt(_)
SumRecordsAt(offsets) ==
  IF offsets = {} THEN 0
  ELSE LET o == CHOOSE x \in offsets : TRUE
       IN RecordsAt(o) + SumRecordsAt(offsets \ {o})

FailedRecordCount == SumRecordsAt(failedAt)

\* C1: the batches the loop produces are, in order, a prefix of the dataset
\* cut into pieces of exactly batchSize records; once the loop has ended on a
\* non-empty dataset there are ceil(n / batchSize) of them, the last holds
\* n mod batchSize records (batchSize when that is 0), and their concatenation
\* is the dataset.
C1_Partition ==
  /\ Len(Flatten(batches)) <= Len(candidates)
  /\ Flatten(batches) = SubSeq(candidates, 1, Len(Flatten(batches)))
  /\ \A k \in 1..(Len(batches) - 1) : Len(batches[k]) = batchSize
  /\ (LoopDone /\ candidates # <<>>) =>
       /\ Len(batches) = CeilDiv(Len(candidates), batchSize)
       /\ Len(batches[Len(batches)]) =
            (IF Len(candidates) % batchSize = 0
               THEN batchSize ELSE Len(candidates) % batchSize)
       /\ Flatten(batches) = candidates

C1_Witness ==
  /\ LoopDone
  /\ Len(batches) = 2
  /\ Len(batches[1]) = batchSize
  /\ Len(batches[2]) < batchSize
  /\ batches[1][1] # batches[2][1]

\* C2: when the loop has ended, insertedCount is the dataset size minus the
\* number of records of the batches whose submission failed.
C2_InsertedCount ==
  LoopDone => insertedCount = Len(candidates) - FailedRecordCount

C2_Witness ==
  /\ LoopDone
  /\ Len(batches) > 1
  /\ Cardinality(failedAt) = 1
  /\ Len(candidates) % batchSize # 0
  /\ insertedCount = Len(candidates) - FailedRecordCount
  /\ insertedCount > 0

\* What the outer try can raise.
AbortCauses == {"login", "createDatabase", "useDatabase", "readFile",
                "noTableData", "createTable", "escape"}

\* C3: no abort of the run is caused by the failure of a bulk-insert
\* submission: after a failed submission the loop has moved on to the next
\* offset and can take the next step of the loop, a run that returns has
\* submitted every batch, and a run that has submitted a batch and ended
\* either returned or was aborted by escape raising on a later batch.
C3_FailureNeverAborts ==
  /\ error \in {"none"} \cup AbortCauses
  /\ (InsertCalls # <<>> /\ pc = "done") =>
       \/ result = "returned"
       \/ error = "escape" /\ BatchThrows(batch)
  /\ \A o \in failedAt : i >= o + batchSize
  /\ result = "returned" => Len(InsertCalls) = NumBatches
  /\ (LoopDone /\ pc = "done") => result = "returned"
  /\ (pc = "loop" /\ failedAt # {}) => ENABLED LoopStep

C3_Witness ==
  /\ result = "returned"
  /\ NumBatches >= 3
  /\ failedAt = {0, batchSize}
  /\ Len(InsertCalls) = NumBatches

\* C4: at most one bulk-insert statement is outstanding, it is the one of the
\* current offset, and the k-th bulk-insert submission is the one of the k-th
\* batch of the dataset.
C4_Sequential ==
  /\ Cardinality(outstanding) <= 1
  /\ outstanding # {} <=> pc = "awaitInsert"
  /\ \A st \in outstanding : st.at = i
  /\ \A k \in 1..Len(InsertCalls) : InsertCalls[k].at = (k - 1) * batchSize
  /\ pc = "awaitInsert" =>
       InsertCalls[Len(InsertCalls)].at = i

C4_Witness ==
  /\ pc = "awaitInsert"
  /\ Len(InsertCalls) = 3
  /\ Cardinality(outstanding) = 1
  /\ failedAt = {batchSize}

\* C5: every batch is the subject of at most one bulk-insert submission, and
\* of exactly one once the loop has ended, whether that submission failed or
\* not; no other statement carries records.
C5_NoRetry ==
  /\ \A a, b \in 1..Len(InsertCalls) :
       InsertCalls[a].at = InsertCalls[b].at => a = b
  /\ Len(InsertCalls) <= NumBatches
  /\ \A o \in failedAt :
       Cardinality({k \in 1..Len(InsertCalls) : InsertCalls[k].at = o}) = 1
  /\ LoopDone => Len(InsertCalls) = NumBatches
  /\ Cardinality({k \in 1..Len(calls) : calls[k].op = "SQLExec"})
       <= 1 + NumBatches

C5_Witness ==
  /\ LoopDone
  /\ failedAt # {}
  /\ NumBatches >= 2
  /\ 0 \in failedAt
  /\ insertedCount > 0

QuoteCount(chars) == Cardinality({k \in 1..Len(chars) : chars[k] = Quote})

\* Every quote of the text is half of a pair of adjacent quotes.
RECURSIVE PairsOnly(_)
PairsOnly(chars) ==
  IF chars = <<>> THEN TRUE
  ELSE IF Head(chars) # Quote THEN PairsOnly(Tail(chars))
  ELSE Len(chars) >= 2 /\ chars[2] = Quote /\ PairsOnly(Tail(Tail(chars)))

RECURSIVE SumSeq(_)
SumSeq(ns) == IF ns = <<>> THEN 0 ELSE Head(ns) + SumSeq(Tail(ns))

\* What a field is expected to read as in the store.
Content(v) == IF v.t = "null" THEN <<>> ELSE v.s

BuiltFields ==
  {<<k, f>> : k \in 1..Len(buildBatch), f \in 1..Len(FieldOrder)}

BuiltValue(kf) == buildBatch[kf[1]][FieldOrder[kf[2]]]

\* C6: in a built statement every string value is embedded with each of its
\* quotes doubled (quotes come in adjacent pairs only, twice as many as in the
\* value), the only other quotes of the text are the two delimiters of each
\* literal, and the text reads as a well-formed statement with one row per
\* record and one literal per column: no value ends its literal early.
C6_Escaping ==
  buildOut.st = "built" =>
    /\ \A kf \in BuiltFields :
         /\ PairsOnly(escape(BuiltValue(kf)))
         /\ QuoteCount(escape(BuiltValue(kf))) = 2 * QuoteCount(Content(BuiltValue(kf)))
    /\ QuoteCount(buildOut.sql) =
         SumSeq([k \in 1..Len(buildBatch) |->
                   SumSeq([f \in 1..Len(FieldOrder) |->
                             2 + 2 * QuoteCount(Content(buildBatch[k][FieldOrder[f]]))])])
    /\ ParseInsert(buildOut.sql).ok
    /\ Len(ParseInsert(buildOut.sql).rows) = Len(buildBatch)

C6_Witness ==
  /\ buildOut.st = "built"
  /\ Len(buildBatch) = 2
  /\ \E kf \in BuiltFields : BuiltValue(kf) = Str(<<Quote, Quote>>)
  /\ \E kf \in BuiltFields : BuiltValue(kf) = Str(<<"a", Quote>>)
  /\ ParseInsert(buildOut.sql).ok

\* C7: the rows a built statement denotes are, in batch order, one row per
\* record of the batch, whose k-th value is the empty string when the
\* record's k-th field is null or missing and the field's own text otherwise.
C7_StatementRows ==
  buildOut.st = "built" =>
    ParseInsert(buildOut.sql).rows =
      [k \in 1..Len(buildBatch) |->
         [f \in 1..Len(FieldOrder) |-> Content(buildBatch[k][FieldOrder[f]])]]

C7_Witness ==
  /\ buildOut.st = "built"
  /\ Len(buildBatch) = 2
  /\ buildBatch[1] # buildBatch[2]
  /\ \E kf \in BuiltFields : BuiltValue(kf) = Null
  /\ \E kf \in BuiltFields : QuoteCount(Content(BuiltValue(kf))) = 2
  /\ ParseInsert(buildOut.sql).rows[1] # ParseInsert(buildOut.sql).rows[2]

\* C8 as stated: a run over an empty dataset ends with nothing inserted and
\* no statement at all issued to the gateway.
C8_NoStatementAtAll ==
  (result = "returned" /\ candidates = <<>>) =>
    /\ insertedCount = 0
    /\ \A k \in 1..Len(calls) : calls[k].op \notin {"SQLExec", "SQLQuery"}

\* C8 amended: a run over an empty dataset ends with nothing inserted and no
\* bulk-insert statement issued; the statements it does issue are the table
\* creation and the two verification queries.
C8_EmptyDataset ==
  (LoopDone /\ candidates = <<>>) =>
    /\ insertedCount = 0
    /\ InsertCalls = <<>>
    /\ batches = <<>>
    /\ table = <<>>
    /\ SelectSeq(calls, LAMBDA c : c.op = "SQLExec")
         = <<Call("SQLExec", "createTable", -1)>>
    /\ result = "returned" =>
         SelectSeq(calls, LAMBDA c : c.op = "SQLQuery")
           = <<Call("SQLQuery", "count", -1), Call("SQLQuery", "sample", -1)>>

C8_Witness ==
  /\ result = "returned"
  /\ candidates = <<>>
  /\ insertedCount = 0
  /\ Len(calls) = 7

\* C9: a step of the verification pass, whether its query fails or not,
\* leaves insertedCount alone, raises nothing and goes on to the next stage
\* (from the count query to the sample query, which is then issued, from the
\* sample query to the end of the run); a run that reported a verification
\* failure still returns normally.
C9_VerificationNonFatal ==
  [][ /\ pc = "verifyCount" =>
           /\ pc' = "verifySample"
           /\ error' = "none"
           /\ insertedCount' = insertedCount
      /\ pc = "verifySample" =>
           /\ calls' = Append(calls, Call("SQLQuery", "sample", -1))
           /\ pc' = "finally"
           /\ error' = "none"
           /\ insertedCount' = insertedCount
      /\ (pc = "finally" /\ verifyFailed # {}) =>
           /\ result' = "returned"
           /\ insertedCount' = insertedCount ]_vars

C9_Witness ==
  /\ result = "returned"
  /\ verifyFailed = {"count", "sample"}
  /\ insertedCount > 0
  /\ failedAt # {}

\* C10: a Read-by-id whose query the store answered, made while the record
\* of a successful Create of that id is still the last thing written to it,
\* succeeds and returns a row holding the id, name and email given to Create
\* and a creation timestamp that is set.
C10_CreateReadRoundTrip ==
  (resp.kind = "get" /\ resp.gw = "ok" /\ resp.seen # NoRecord) =>
    /\ resp.status = 200
    /\ resp.success
    /\ resp.id = resp.seen.id
    /\ Len(resp.data) = 4
    /\ resp.data[1] = resp.seen.id
    /\ resp.data[2] = resp.seen.name
    /\ resp.data[3] = resp.seen.email
    /\ resp.data[4] \in Nat \ {0}

C10_Witness ==
  /\ resp.kind = "get"
  /\ resp.status = 200
  /\ resp.seen = [id |-> "user002", name |-> "Bob", email |-> "alice@example.com"]
  /\ resp.data[2] = "Bob"
  /\ "user001" \in DOMAIN users

\* C11: a Read-by-id that the store answered, made while an UPDATE carrying
\* the name X is the last statement executed on the id, succeeds and returns
\* a row whose id is the id asked for and whose name is X.
C11_UpdateThenRead ==
  (/\ resp.kind = "get"
   /\ resp.gw = "ok"
   /\ resp.seenUpdate.done
   /\ resp.seenUpdate.name # Undefined) =>
    /\ resp.status = 200
    /\ resp.success
    /\ Len(resp.data) = 4
    /\ resp.data[1] = resp.id
    /\ resp.data[2] = resp.seenUpdate.name

C11_Witness ==
  /\ resp.kind = "get"
  /\ resp.id = "user001"
  /\ resp.status = 200
  /\ resp.seenUpdate = [name |-> "Bob", email |-> Undefined, done |-> TRUE]
  /\ resp.data[1] = "user001"
  /\ resp.data[2] = "Bob"

\* C12: a Read-by-id that the store answered for an id no Create has ever
\* stored fails with "User not found", and GET /users/:id sends status 404
\* with a body of exactly {success: false, error}, whatever was created or
\* updated under other ids.
C12_ReadNeverCreated ==
  (/\ resp.kind = "get"
   /\ resp.gw = "ok"
   /\ resp.id \notin DOMAIN users) =>
    /\ resp.status = 404
    /\ ~resp.success
    /\ resp.error = "Failed to get user: User not found"
    /\ resp.keys = {"success", "error"}
    /\ resp.data = NoRow

C12_Witness ==
  /\ resp.kind = "get"
  /\ resp.id = "user002"
  /\ resp.gw = "ok"
  /\ resp.status = 404
  /\ "user002" \notin DOMAIN users
  /\ lastUpdate["user001"].done

\* C13: an Update of an id that does not exist (updateUser's first getUser
\* found no row) is answered by PUT /users/:id with status 404.
C13_UpdateMissingIs404 ==
  (/\ resp.kind = "update"
   /\ resp.error = "Failed to update user: Failed to get user: User not found") =>
    resp.status = 404

\* The messages createUser can throw: the prefix and the gateway's error.
CreateFailures ==
  {"Failed to create user: " \o e : e \in {"key already exists", "statement failed"}}

\* C14: the step in which POST /users is answered.  An INSERT for an id the
\* table holds is not executed; whenever the INSERT fails the response is
\* 400 with exactly {success: false, error}, the error being createUser's
\* prefix followed by the gateway's error, it carries no record data and no
\* transaction identifier, and the table, the stored record of that id
\* included, is as it was.
C14_CreateFailure ==
  [][ \A s \in Slots :
        (reqs[s].pc = "create" /\ reqs'[s].pc = "idle") =>
          /\ resp'.kind = "create"
          /\ reqs[s].id \in DOMAIN users => ~resp'.success
          /\ ~resp'.success =>
               /\ resp'.status = 400
               /\ resp'.keys = {"success", "error"}
               /\ resp'.error \in CreateFailures
               /\ resp'.shape = "none"
               /\ resp'.data = NoRow
               /\ resp'.txId = 0
               /\ users' = users
               /\ revisions' = revisions
               /\ txCount' = txCount ]_vars

C14_Witness ==
  /\ resp.kind = "create"
  /\ resp.id = "user001"
  /\ resp.status = 400
  /\ resp.error = "Failed to create user: key already exists"
  /\ resp.txId = 0
  /\ users["user001"] = [name |-> "Alice", email |-> "alice@example.com",
                         created_at |-> 1]

\* C15 as stated: every request is answered after at least one and at most
\* two gateway calls.
C15_OneOrTwoCalls ==
  resp.kind # "none" => resp.gwCalls \in {1, 2}

\* C15 amended: every request is answered after at least one and at most
\* three gateway calls.  Create, read-by-id, list, history and the health
\* check make exactly one; update makes one when its first read fails, two
\* when the UPDATE fails, and three (read, UPDATE, read again) otherwise,
\* in particular whenever it succeeds.
C15_GatewayCalls ==
  /\ resp.kind # "none" => resp.gwCalls \in 1..3
  /\ resp.kind \in {"create", "get", "list", "history", "health"} =>
       resp.gwCalls = 1
  /\ (resp.kind = "update" /\ resp.success) => resp.gwCalls = 3
  /\ \A s \in Slots :
       /\ reqs[s].gwCalls \in 0..2
       /\ reqs[s].pc = "update.exec" => reqs[s].gwCalls = 1
       /\ reqs[s].pc = "update.reread" => reqs[s].gwCalls = 2

C15_Witness ==
  /\ resp.kind = "update"
  /\ resp.success
  /\ resp.status = 200
  /\ resp.gwCalls = 3

\* C16: the verified value of a successful create, read, list, update or
\* history response is the verification flag the gateway's result carried.
C16_VerifiedForwarded ==
  (/\ resp.success
   /\ resp.kind \in {"create", "get", "list", "update", "history"}) =>
    resp.verified = resp.gwVerified

\* C17: once login has failed the run issues no createDatabase, useDatabase,
\* schema, insert or query call (the only call after login is the logout of
\* the finally block), reads and inserts nothing, and ends by rethrowing the
\* error to its caller.
C17_LoginFailureFatal ==
  error = "login" =>
    /\ pc \in {"finally", "done"}
    /\ calls \in {<<Call("login", "", -1)>>,
                  <<Call("login", "", -1), Call("logout", "", -1)>>}
    /\ \A k \in 1..Len(calls) :
         calls[k].op \notin {"createDatabase", "useDatabase", "SQLExec", "SQLQuery"}
    /\ dbLog = "none"
    /\ candidates = <<>> /\ batches = <<>> /\ table = <<>>
    /\ insertedCount = 0
    /\ result # "returned"
    /\ pc = "done" => result = "thrown"

C17_Witness ==
  /\ error = "login"
  /\ pc = "done"
  /\ result = "thrown"
  /\ Len(calls) = 2

\* C18: when createDatabase fails with "already exists" the run goes on
\* with useDatabase as its next call and no error pending; when it fails
\* otherwise the error is rethrown: no further call but the logout of the
\* finally block is made, no batch is built or submitted, and the run ends
\* by throwing.
C18_AlreadyExistsSwallowed ==
  /\ dbLog = "existing" =>
       /\ error # "createDatabase"
       /\ pc = "useDatabase" => error = "none"
       /\ pc # "useDatabase" =>
            /\ Len(calls) >= 3
            /\ calls[3] = Call("useDatabase", "", -1)
  /\ error = "createDatabase" =>
       /\ dbLog = "none"
       /\ pc \in {"finally", "done"}
       /\ calls \in {<<Call("login", "", -1), Call("createDatabase", "", -1)>>,
                     <<Call("login", "", -1), Call("createDatabase", "", -1),
                       Call("logout", "", -1)>>}
       /\ batches = <<>> /\ InsertCalls = <<>> /\ table = <<>>
       /\ insertedCount = 0
       /\ pc = "done" => result = "thrown"

C18_Witness ==
  /\ dbLog = "existing"
  /\ result = "returned"
  /\ Len(candidates) = MaxRecords
  /\ insertedCount = MaxRecords
  /\ Len(InsertCalls) >= 2

\* C19: healthCheck never raises (the handler's catch branch, which adds an
\* error to the body, is never taken): GET /health answers 200 with success
\* true and database "connected" exactly when SELECT 1 succeeded, and 500
\* with success false and database "disconnected" exactly when it failed.
C19_HealthCheck ==
  resp.kind = "health" =>
    /\ resp.error = ""
    /\ resp.keys = {"success", "database", "timestamp"}
    /\ resp.gw \in {"ok", "failed"}
    /\ resp.gw = "ok" <=>
         (resp.status = 200 /\ resp.success /\ resp.database = "connected")
    /\ resp.gw = "failed" <=>
         (resp.status = 500 /\ ~resp.success /\ resp.database = "disconnected")

C19_Witness ==
  /\ resp.kind = "health"
  /\ resp.gw = "failed"
  /\ resp.status = 500
  /\ resp.database = "disconnected"
  /\ resp.error = ""
  /\ connState = "connected"

UserEndpoints == {"create", "get", "list", "update", "history"}

\* C20: every response of a user endpoint is either a success envelope
\* (success true, one payload, a tamperProof object with verified and
\* cryptographicProof, no error, status 200 or 201) or a failure envelope
\* (exactly {success: false, error}, status 400, 404 or 500); never success
\* true with an error status or success false with a 2xx status.
C20_Envelope ==
  resp.kind \in UserEndpoints =>
    \/ /\ resp.success
       /\ resp.status \in {200, 201}
       /\ resp.error = ""
       /\ "error" \notin resp.keys
       /\ {"success", "tamperProof"} \subseteq resp.keys
       /\ Cardinality(resp.keys \cap {"user", "users", "historicalUser"}) = 1
       /\ resp.shape # "none"
       /\ {"verified", "cryptographicProof"} \subseteq resp.tamper
    \/ /\ ~resp.success
       /\ resp.status \in {400, 404, 500}
       /\ resp.error # ""
       /\ resp.keys = {"success", "error"}
       /\ resp.tamper = {}
       /\ resp.shape = "none"
       /\ resp.data = NoRow

C20_Witness ==
  /\ resp.kind = "list"
  /\ resp.success
  /\ resp.status = 200
  /\ Len(resp.data) = 2
  /\ resp.data[1][1] = "user002"
  /\ resp.keys = {"success", "users", "count", "tamperProof"}

\* C21: the steps of one Update.  The first gateway call is the read: it
\* leaves the store as it was, and the request goes on to the UPDATE only
\* when the read found the id; otherwise it is answered with a failure and
\* no update statement is ever issued for it.  The second call is the
\* UPDATE, the only step of the request that writes, and it is followed by
\* the re-read (or by a failure response when the statement failed); the
\* third call is the re-read, which writes nothing and ends the request.
C21_UpdateOrder ==
  [][ \A s \in Slots :
        /\ (reqs[s].pc = "update.read" /\ reqs'[s] # reqs[s]) =>
             /\ users' = users /\ revisions' = revisions /\ txCount' = txCount
             /\ lastUpdate' = lastUpdate
             /\ reqs[s].gwCalls = 0
             /\ reqs'[s].pc \in {"update.exec", "idle"}
             /\ reqs'[s].pc = "update.exec" => reqs[s].id \in DOMAIN users
             /\ reqs[s].id \notin DOMAIN users =>
                  /\ reqs'[s].pc = "idle"
                  /\ resp'.kind = "update" /\ ~resp'.success
                  /\ resp'.gwCalls = 1
        /\ (reqs[s].pc = "update.exec" /\ reqs'[s] # reqs[s]) =>
             /\ reqs[s].gwCalls = 1
             /\ reqs'[s].pc \in {"update.reread", "idle"}
             /\ reqs'[s].pc = "update.reread" <=> txCount' = txCount + 1
             /\ reqs'[s].pc = "idle" =>
                  /\ users' = users /\ revisions' = revisions
                  /\ ~resp'.success
        /\ (reqs[s].pc = "update.reread" /\ reqs'[s] # reqs[s]) =>
             /\ users' = users /\ revisions' = revisions /\ txCount' = txCount
             /\ reqs[s].gwCalls = 2
             /\ reqs'[s].pc = "idle"
        /\ (reqs[s].kind = "update" /\ users' # users) =>
             reqs[s].pc = "update.exec" \/ reqs'[s] = reqs[s] ]_vars

C21_Witness ==
  /\ resp.kind = "update"
  /\ resp.id = "user002"
  /\ resp.error = "Failed to update user: Failed to get user: User not found"
  /\ resp.gwCalls = 1
  /\ DOMAIN users = {"user001"}
  /\ Len(revisions["user001"]) = 1
  /\ ~lastUpdate["user002"].done

\* The positions in the call log of the table-creation statement.
SchemaCallsAt == {k \in 1..Len(calls) : calls[k].what = "createTable"}

\* C22: in every run the table-creation statement is issued at most once,
\* and exactly once by the time the batch loop is entered; it is the fourth
\* call, after login, createDatabase and useDatabase, every bulk insert
\* comes after it, and nothing but bulk inserts, the two verification
\* queries and the logout follows it.
C22_SchemaOnce ==
  /\ Cardinality(SchemaCallsAt) <= 1
  /\ (pc \in {"loop", "awaitInsert", "verifyCount", "verifySample"}
        \/ InsertCalls # <<>>) => Cardinality(SchemaCallsAt) = 1
  /\ \A k \in SchemaCallsAt :
       /\ k = 4
       /\ calls[1].op = "login"
       /\ calls[2].op = "createDatabase"
       /\ calls[3].op = "useDatabase"
       /\ \A j \in (k + 1)..Len(calls) :
            \/ calls[j].what \in {"insert", "count", "sample"}
            \/ calls[j].op = "logout"
  /\ \A j \in 1..Len(calls) :
       calls[j].what = "insert" => \E k \in SchemaCallsAt : k < j

C22_Witness ==
  /\ result = "returned"
  /\ Len(InsertCalls) = 3
  /\ failedAt # {}
  /\ SchemaCallsAt = {4}

\* The row a record is expected to be in the store: its fields in column
\* order, null read as the empty text.
StoredRow(candidate) ==
  [f \in 1..Len(FieldOrder) |-> Content(candidate[FieldOrder[f]])]

\* The k-th batch has been submitted and its submission succeeded.
Succeeded(k) ==
  /\ (k - 1) * batchSize < i
  /\ (k - 1) * batchSize \notin failedAt

\* The rows of the records of the first k batches whose submission succeeded.
RECURSIVE RowsOfSucceeded(_)
RowsOfSucceeded(k) ==
  IF k = 0 THEN <<>>
  ELSE RowsOfSucceeded(k - 1)
       \o (IF Succeeded(k)
             THEN [r \in 1..Len(batches[k]) |-> StoredRow(batches[k][r])]
             ELSE <<>>)

\* C23: with a store that applies a bulk insert wholly or not at all, the
\* rows the run has added are at every moment, and so at its end, the
\* records of the batches whose submission succeeded, in dataset order, and
\* insertedCount is the number of those rows.
C23_RowsAdded ==
  /\ table = RowsOfSucceeded(Len(batches))
  /\ insertedCount = Len(table)

C23_Witness ==
  /\ pc = "done"
  /\ result = "returned"
  /\ Len(candidates) = MaxRecords
  /\ Cardinality(failedAt) = 1
  /\ Len(table) \in 1..(MaxRecords - 1)
  /\ insertedCount = Len(table)
  /\ \E r \in 1..Len(table) : table[r][1] = <<"a", Quote>>

\* C24: a batch whose statement cannot be built (escape raises on one of its
\* values) is treated like a failed submission: no error leaves the loop,
\* the batch's offset is logged as failed and the loop moves past it.
C24_BuildFailureIsolated ==
  \A k \in 1..Len(batches) :
    BatchThrows(batches[k]) =>
      /\ error = "none"
      /\ (k - 1) * batchSize \in failedAt
      /\ i > (k - 1) * batchSize

\* C25: a request handler makes its gateway calls only once connect() has
\* completed: whenever a request has made a call, or a request has been
\* answered (every answer follows a call), the connection is established.
C25_NoCallBeforeConnect ==
  ((\E s \in Slots : reqs[s].gwCalls > 0) \/ resp.gwCalls > 0) =>
    connState = "connected"

\* C26: the step in which a successful Update is answered: the row returned
\* carries the name and the email that this request's UPDATE wrote.
C26_UpdateReturnsOwnWrite ==
  [][ \A s \in Slots :
        (/\ reqs[s].pc = "update.reread"
         /\ reqs'[s].pc = "idle"
         /\ resp'.success) =>
          /\ resp'.data[2] = OrEmpty(reqs[s].name)
          /\ resp'.data[3] = OrEmpty(reqs[s].email) ]_vars

\* C27: the step in which an UPDATE is executed changes, in the record of
\* the id, exactly the fields the request supplied: a field the request
\* omitted keeps its stored value, the creation time is kept, no record is
\* added or removed and every other record is left as it was.
C27_OnlySuppliedFields ==
  [][ \A s \in Slots :
        (reqs[s].pc = "update.exec" /\ reqs'[s].pc = "update.reread") =>
          /\ DOMAIN users' = DOMAIN users
          /\ \A x \in DOMAIN users \ {reqs[s].id} : users'[x] = users[x]
          /\ reqs[s].id \in DOMAIN users =>
               /\ users'[reqs[s].id].created_at = users[reqs[s].id].created_at
               /\ users'[reqs[s].id].name =
                    IF reqs[s].name = Undefined
                      THEN users[reqs[s].id].name ELSE reqs[s].name
               /\ users'[reqs[s].id].email =
                    IF reqs[s].email = Undefined
                      THEN users[reqs[s].id].email ELSE reqs[s].email ]_vars

====
